---- MODULE Spec2Model ----
(***************************************************************************)
(* WorkOutApi, the athlete ("atleta") controller: the five request         *)
(* handlers of src/WorkOutApi/atleta/controller.py over a transactional    *)
(* store.  A handler runs as a task; every `await` on the database session *)
(* is a point where other tasks may run, so a handler is one action per    *)
(* database round trip.  A write and the COMMIT that follows it are one    *)
(* step: the store holds the row lock (or the unique-index entry) from the *)
(* write to the commit, so no other transaction can act in between.        *)
(***************************************************************************)
EXTENDS Integers, Sequences, FiniteSets, Bags, TLC

VARIABLES
    db,      \* table atletas: pk (the uuid) -> row of committed columns
    uuids,   \* number of uuid4() values drawn so far; the next one is uuids + 1
    clock,   \* number of datetime.now() readings so far
    tasks,   \* bag of the handlers suspended at an await, with their locals
    resp,    \* the HTTP response sent by the step just taken (NoResp if none)
    log      \* SpecCreate only: the outcomes of the post() commits, in order

vars == <<db, uuids, clock, tasks, resp, log>>

----------------------------------------------------------------------------
\* Bounds of the model.

\* Handlers that may be suspended at an await at the same time.
MaxTasks == 2
\* uuid4() values the model draws, i.e. post() calls that reach the insert.
MaxIds == 2

----------------------------------------------------------------------------
\* Status codes used by the controller.

HTTP_200_OK == 200
HTTP_201_CREATED == 201
HTTP_204_NO_CONTENT == 204
HTTP_303_SEE_OTHER == 303
HTTP_400_BAD_REQUEST == 400
HTTP_404_NOT_FOUND == 404
HTTP_500_INTERNAL_SERVER_ERROR == 500

----------------------------------------------------------------------------
\* Strings whose characters matter (names, name filters) are sequences of
\* one-character strings.

Ana == <<"A", "n", "a">>
Diana == <<"D", "I", "A", "N", "A">>
Bob == <<"B", "o", "b">>

\* Reference tables, read and never written by this service: nome -> pk_id.
CategoriaTable == [nome \in {"Scale", "RX"} |-> IF nome = "Scale" THEN 1 ELSE 2]
CentroTreinamentoTable == [nome \in {"CT King"} |-> 1]

\* select(CategoriaModel).filter_by(nome=...) ... .first(): the row's pk_id in
\* a set, or the empty set for None.
SelectCategoria(nome) ==
    IF nome \in DOMAIN CategoriaTable THEN {CategoriaTable[nome]} ELSE {}

SelectCentroTreinamento(nome) ==
    IF nome \in DOMAIN CentroTreinamentoTable
    THEN {CentroTreinamentoTable[nome]} ELSE {}

\* The relationship attributes of a loaded row: the nome of the referenced row.
CategoriaNome(pk) == CHOOSE n \in DOMAIN CategoriaTable : CategoriaTable[n] = pk
CentroTreinamentoNome(pk) ==
    CHOOSE n \in DOMAIN CentroTreinamentoTable : CentroTreinamentoTable[n] = pk

\* Request bodies of POST (AtletaIn); categoria and centro_treinamento are the
\* nested objects' nome.
InAna ==
    [nome |-> Ana, cpf |-> "111", peso |-> 70, altura |-> 170, sexo |-> "F",
     categoria |-> "Scale", centro_treinamento |-> "CT King"]
InBob ==
    [nome |-> Bob, cpf |-> "222", peso |-> 90, altura |-> 180, sexo |-> "M",
     categoria |-> "RX", centro_treinamento |-> "CT King"]
InNoCategoria == [InAna EXCEPT !.categoria = "Elite"]
InNoCentro == [InAna EXCEPT !.centro_treinamento = "CT Nowhere"]
InNoReference ==
    [InBob EXCEPT !.categoria = "Elite", !.centro_treinamento = "CT Nowhere"]

AtletaInSamples ==
    {InAna, InBob, InNoCategoria, InNoCentro, InNoReference}

\* A second body with InAna's cpf, for SpecCreate.
InDiana ==
    [nome |-> Diana, cpf |-> "111", peso |-> 65, altura |-> 165, sexo |-> "F",
     categoria |-> "RX", centro_treinamento |-> "CT King"]

\* Request bodies of PATCH (AtletaUpdate), sparse: the fields that were set.
UpPeso == [peso |-> 81]
UpCpf == [cpf |-> "222"]
UpCategoria == [categoria |-> "RX"]
UpCentroUnknown == [centro_treinamento |-> "CT Nowhere"]

AtletaUpdateSamples ==
    {UpPeso, UpCpf, UpCategoria, UpCentroUnknown}

\* Identifiers a request may carry: every uuid the model can draw.
RequestIds == 1..MaxIds

\* Columns of table atletas besides the primary key.
ScalarColumns == {"nome", "cpf", "peso", "altura", "sexo"}
Relationships == {"categoria", "centro_treinamento"}

----------------------------------------------------------------------------
\* Responses.

NoBody == [none |-> TRUE]
NoResp ==
    [op |-> "none", status |-> 0, id |-> 0, detail |-> "", body |-> NoBody,
     follows |-> NoBody]

Response(op, status, id, detail, body) ==
    [op |-> op, status |-> status, id |-> id, detail |-> detail, body |-> body,
     follows |-> NoBody]

\* AtletaOut.model_validate(row): the columns, and the relationships' nome.
AtletaOut(id, row) ==
    [id |-> id, creat_at |-> row.creat_at, nome |-> row.nome, cpf |-> row.cpf,
     peso |-> row.peso, altura |-> row.altura, sexo |-> row.sexo,
     categoria |-> CategoriaNome(row.categoria_id),
     centro_treinamento |-> CentroTreinamentoNome(row.centro_treinamento_id)]

\* Number of suspended handlers, and of suspended post() handlers.
Suspended == BagCardinality(tasks)
SuspendedPosts ==
    BagCardinality([t \in {u \in BagToSet(tasks) : u.op = "post"} |-> tasks[t]])

Suspend(t) == tasks (+) SetToBag({t})
Resume(t) == tasks (-) SetToBag({t})

\* The store's unique constraint on atletas.cpf: would giving row `id` this
\* cpf collide with another committed row?
NoUniqueConstraint(table, id, cpf) == FALSE
UniqueViolation(table, id, cpf) ==
    \E j \in DOMAIN table : j # id /\ table[j].cpf = cpf

----------------------------------------------------------------------------
\* post(): POST /

\* Lines 35-38: raise HTTPException(400, "Categoria ... não encontrada").
CategoriaNotFoundAs404 ==
    Response("post", HTTP_404_NOT_FOUND, 0, "categoria", NoBody)
CategoriaNotFound ==
    Response("post", HTTP_400_BAD_REQUEST, 0, "categoria", NoBody)

\* Lines 45-48: raise HTTPException(400, "Centro de Treinamento ... não encontrado").
CentroTreinamentoNotFound ==
    Response("post", HTTP_400_BAD_REQUEST, 0, "centro_treinamento", NoBody)

\* Lines 27-38: look the categoria up by nome.  (The two guards bound the
\* model: a handler is admitted only while it can run to its end.)
PostSelectCategoria(in) ==
    /\ Suspended < MaxTasks
    /\ uuids + SuspendedPosts < MaxIds
    /\ LET categoria == SelectCategoria(in.categoria) IN
        IF categoria = {}
        THEN /\ resp' = CategoriaNotFound
             /\ UNCHANGED <<db, uuids, clock, tasks>>
        ELSE /\ tasks' = Suspend([op |-> "post", pc |-> "centro_treinamento",
                                  in |-> in,
                                  categoria |-> CHOOSE pk \in categoria : TRUE])
             /\ resp' = NoResp
             /\ UNCHANGED <<db, uuids, clock>>

\* Lines 40-48: look the centro de treinamento up by nome.
PostSelectCentroTreinamento(t) ==
    /\ t.op = "post" /\ t.pc = "centro_treinamento"
    /\ LET centro == SelectCentroTreinamento(t.in.centro_treinamento) IN
        IF centro = {}
        THEN /\ resp' = CentroTreinamentoNotFound
             /\ tasks' = Resume(t)
             /\ UNCHANGED <<db, uuids, clock>>
        ELSE /\ tasks' = Suspend([op |-> "post", pc |-> "commit", in |-> t.in,
                                  categoria |-> t.categoria,
                                  centro_treinamento |-> CHOOSE pk \in centro : TRUE])
                         (-) SetToBag({t})
             /\ resp' = NoResp
             /\ UNCHANGED <<db, uuids, clock>>

\* Line 51: AtletaOut(id=uuid4(), creat_at=datetime.now(), **atleta_in.model_dump()).
\* categoria and centro_treinamento are the request's, not the looked-up rows.
NewAtletaOut(id, now, in) ==
    [id |-> id, creat_at |-> now, nome |-> in.nome, cpf |-> in.cpf,
     peso |-> in.peso, altura |-> in.altura, sexo |-> in.sexo,
     categoria |-> in.categoria, centro_treinamento |-> in.centro_treinamento]

\* Lines 52-55: AtletaModel(**atleta_out.model_dump(exclude=...)) and the two
\* foreign keys.  The row's primary key is out.id.
NewAtletaModelOwnTimestamp(out, categoria, centro) ==
    [creat_at |-> out.creat_at + 1, nome |-> out.nome, cpf |-> out.cpf,
     peso |-> out.peso, altura |-> out.altura, sexo |-> out.sexo,
     categoria_id |-> categoria, centro_treinamento_id |-> centro]
NewAtletaModel(out, categoria, centro) ==
    [creat_at |-> out.creat_at, nome |-> out.nome, cpf |-> out.cpf,
     peso |-> out.peso, altura |-> out.altura, sexo |-> out.sexo,
     categoria_id |-> categoria, centro_treinamento_id |-> centro]

\* Lines 60-65: the IntegrityError of a duplicate key becomes 303.
DuplicateCpfUnclassified(cpf) ==
    Response("post", HTTP_500_INTERNAL_SERVER_ERROR, 0, "", NoBody)
DuplicateCpf(cpf) ==
    Response("post", HTTP_303_SEE_OTHER, 0, cpf, NoBody)

\* INSERT of a row under a fresh primary key.
Insert(table, id, row) ==
    [j \in DOMAIN table \cup {id} |-> IF j = id THEN row ELSE table[j]]

\* Lines 50-72: build the record and the row, add, commit, answer.  The other
\* IntegrityErrors of lines 66-70 (a null column, a dangling foreign key, a
\* repeated primary key) cannot arise: the body is validated, the reference
\* tables are never written and the uuid is fresh.
PostCommit(t) ==
    /\ t.op = "post" /\ t.pc = "commit"
    /\ LET id == uuids + 1
           now == clock + 1
           atleta_out == NewAtletaOut(id, now, t.in)
           atleta_model == NewAtletaModel(atleta_out, t.categoria, t.centro_treinamento)
       IN
        /\ uuids' = id
        /\ clock' = now
        /\ tasks' = Resume(t)
        /\ IF UniqueViolation(db, id, atleta_model.cpf)
           THEN /\ resp' = DuplicateCpf(t.in.cpf)
                /\ UNCHANGED db
           ELSE /\ db' = Insert(db, id, atleta_model)
                /\ resp' = Response("post", HTTP_201_CREATED, id, "", atleta_out)

----------------------------------------------------------------------------
\* query_atleta_by_id(): GET /{id}

\* Lines 112-115.
GetNotFound(id) == Response("get", HTTP_404_NOT_FOUND, id, "id", NoBody)

\* Lines 105-117.  `follows` is kept for the properties: the record that
\* post() returned, when this request is answered right after that post()
\* created this id.
QueryAtletaById(id) ==
    /\ resp' =
        IF id \notin DOMAIN db
        THEN [GetNotFound(id) EXCEPT !.follows =
                IF resp.op = "post" /\ resp.status = HTTP_201_CREATED /\ resp.id = id
                THEN resp.body ELSE NoBody]
        ELSE [Response("get", HTTP_200_OK, id, "", AtletaOut(id, db[id]))
                EXCEPT !.follows =
                IF resp.op = "post" /\ resp.status = HTTP_201_CREATED /\ resp.id = id
                THEN resp.body ELSE NoBody]
    /\ UNCHANGED <<db, uuids, clock, tasks>>

----------------------------------------------------------------------------
\* update_atleta(): PATCH /{id}

\* Lines 134-137.
UpdateNotFound(id) == Response("patch", HTTP_404_NOT_FOUND, id, "id", NoBody)

\* An exception no handler catches: the framework answers 500 and the
\* session is closed without a commit.
Unhandled(op, id, detail) ==
    Response(op, HTTP_500_INTERNAL_SERVER_ERROR, id, detail, NoBody)

\* Line 141 on a relationship attribute, with the dict model_dump() gives for
\* the nested object: the ORM either refuses the value or takes it without
\* touching the foreign-key column.
RelationshipAssignment == {"raises", "ignored"}

\* Lines 139-141: the columns whose loaded value the setattr loop changes.
\* Setting a column to the value it already has leaves it out of the UPDATE.
Dirty(row, up) ==
    {k \in DOMAIN up \cap ScalarColumns : up[k] # row[k]}

\* Lines 131-141: load the row, apply the fields that were set.
UpdateAtletaSelect(id, up) ==
    /\ Suspended < MaxTasks
    /\ IF id \notin DOMAIN db
       THEN /\ resp' = UpdateNotFound(id)
            /\ UNCHANGED <<db, uuids, clock, tasks>>
       ELSE \E outcome \in RelationshipAssignment :
            IF DOMAIN up \cap Relationships # {} /\ outcome = "raises"
            THEN /\ resp' = Unhandled("patch", id, "setattr")
                 /\ UNCHANGED <<db, uuids, clock, tasks>>
            ELSE /\ tasks' = Suspend([op |-> "patch", pc |-> "commit", id |-> id,
                                      up |-> up, dirty |-> Dirty(db[id], up)])
                 /\ resp' = NoResp
                 /\ UNCHANGED <<db, uuids, clock>>

\* The UPDATE the commit flushes: SET the dirty columns WHERE id = :id.
ApplyUpdateReplacing(row, up, dirty) ==
    [c \in DOMAIN row |->
        IF c \in dirty THEN up[c]
        ELSE IF c \in {"peso", "altura"} THEN 0
        ELSE IF c \in {"cpf", "sexo"} THEN ""
        ELSE IF c = "nome" THEN << >> ELSE row[c]]
ApplyUpdate(row, up, dirty) ==
    [c \in DOMAIN row |-> IF c \in dirty THEN up[c] ELSE row[c]]

\* The handler after its commit: only the loaded object is used from there on.
Refreshing(t) == [op |-> "patch", pc |-> "refresh", id |-> t.id]

\* Line 143: commit.  Nothing dirty: nothing is sent.  Otherwise the UPDATE
\* matches no row if the row was deleted meanwhile (StaleDataError), or breaks
\* the unique constraint (IntegrityError); neither is caught.
UpdateAtletaCommit(t) ==
    /\ t.op = "patch" /\ t.pc = "commit"
    /\ UNCHANGED <<uuids, clock>>
    /\ IF t.dirty = {}
       THEN /\ tasks' = Suspend(Refreshing(t)) (-) SetToBag({t})
            /\ resp' = NoResp
            /\ UNCHANGED db
       ELSE IF t.id \notin DOMAIN db
       THEN /\ tasks' = Resume(t)
            /\ resp' = Unhandled("patch", t.id, "StaleDataError")
            /\ UNCHANGED db
       ELSE IF UniqueViolation(db, t.id, ApplyUpdate(db[t.id], t.up, t.dirty).cpf)
       THEN /\ tasks' = Resume(t)
            /\ resp' = Unhandled("patch", t.id, "IntegrityError")
            /\ UNCHANGED db
       ELSE /\ db' = [db EXCEPT ![t.id] = ApplyUpdate(db[t.id], t.up, t.dirty)]
            /\ tasks' = Suspend(Refreshing(t)) (-) SetToBag({t})
            /\ resp' = NoResp

\* Lines 144-146: refresh re-reads the row (an error if it is gone) and the
\* handler answers with it.
UpdateAtletaRefresh(t) ==
    /\ t.op = "patch" /\ t.pc = "refresh"
    /\ tasks' = Resume(t)
    /\ resp' = IF t.id \notin DOMAIN db
               THEN Unhandled("patch", t.id, "InvalidRequestError")
               ELSE Response("patch", HTTP_200_OK, t.id, "", AtletaOut(t.id, db[t.id]))
    /\ UNCHANGED <<db, uuids, clock>>

----------------------------------------------------------------------------
\* delete_atleta(): DELETE /{id}

\* Lines 161-164.
DeleteNotFoundAsNoContent(id) ==
    Response("delete", HTTP_204_NO_CONTENT, id, "", NoBody)
DeleteNotFound(id) == Response("delete", HTTP_404_NOT_FOUND, id, "id", NoBody)

\* Lines 158-164: load the row.
DeleteAtletaSelect(id) ==
    /\ Suspended < MaxTasks
    /\ IF id \notin DOMAIN db
       THEN /\ resp' = DeleteNotFound(id)
            /\ UNCHANGED <<db, uuids, clock, tasks>>
       ELSE /\ tasks' = Suspend([op |-> "delete", pc |-> "commit", id |-> id])
            /\ resp' = NoResp
            /\ UNCHANGED <<db, uuids, clock>>

\* The DELETE the commit flushes: WHERE id = :id.
DeleteRowNotCommitted(table, id) == table
DeleteRow(table, id) == [j \in DOMAIN table \ {id} |-> table[j]]

\* Lines 166-167: delete and commit.  A DELETE that matches no row (the row
\* was deleted meanwhile) is a warning, not an error.
DeleteAtletaCommit(t) ==
    /\ t.op = "delete" /\ t.pc = "commit"
    /\ db' = DeleteRow(db, t.id)
    /\ tasks' = Resume(t)
    /\ resp' = Response("delete", HTTP_204_NO_CONTENT, t.id, "", NoBody)
    /\ UNCHANGED <<uuids, clock>>

----------------------------------------------------------------------------
\* The service: requests arrive at any time and handlers interleave at their
\* awaits.

Init ==
    /\ db = << >>
    /\ uuids = 0
    /\ clock = 0
    /\ tasks = EmptyBag
    /\ resp = NoResp
    /\ log = << >>

Next ==
    \/ \E in \in AtletaInSamples : PostSelectCategoria(in) /\ UNCHANGED log
    \/ \E t \in BagToSet(tasks) : PostSelectCentroTreinamento(t) /\ UNCHANGED log
    \/ \E t \in BagToSet(tasks) : PostCommit(t) /\ UNCHANGED log
    \/ \E id \in RequestIds : QueryAtletaById(id) /\ UNCHANGED log
    \/ \E id \in RequestIds, up \in AtletaUpdateSamples :
            UpdateAtletaSelect(id, up) /\ UNCHANGED log
    \/ \E t \in BagToSet(tasks) : UpdateAtletaCommit(t) /\ UNCHANGED log
    \/ \E t \in BagToSet(tasks) : UpdateAtletaRefresh(t) /\ UNCHANGED log
    \/ \E id \in RequestIds : DeleteAtletaSelect(id) /\ UNCHANGED log
    \/ \E t \in BagToSet(tasks) : DeleteAtletaCommit(t) /\ UNCHANGED log

Spec == Init /\ [][Next]_vars

----------------------------------------------------------------------------
\* post() alone, from an empty table, with the outcome of every commit kept.

NextCreate ==
    \/ \E in \in AtletaInSamples \cup {InDiana} :
            PostSelectCategoria(in) /\ UNCHANGED log
    \/ \E t \in BagToSet(tasks) : PostSelectCentroTreinamento(t) /\ UNCHANGED log
    \/ \E t \in BagToSet(tasks) :
            /\ PostCommit(t)
            /\ log' = Append(log, [cpf |-> t.in.cpf, status |-> resp'.status])

SpecCreate == Init /\ [][NextCreate]_vars

----------------------------------------------------------------------------
\* query_all_atletas(): GET /

\* An Optional[str] query parameter; `empty` is the empty string of its kind
\* (a sequence of characters for nome, a string for cpf).
None(empty) == [present |-> FALSE, value |-> empty]
Some(v) == [present |-> TRUE, value |-> v]

\* Python's truth value of the parameter: None and the empty string are false.
Truthy(param, empty) == param.present /\ param.value # empty

LowerChar(c) ==
    CASE c = "A" -> "a" [] c = "B" -> "b" [] c = "D" -> "d" [] c = "I" -> "i"
      [] c = "N" -> "n" [] OTHER -> c
Lower(s) == [k \in 1..Len(s) |-> LowerChar(s[k])]

\* SQL's LIKE: % matches any run of characters, _ any one character, and a
\* backslash takes the next character literally.
RECURSIVE Like(_, _)
Like(s, p) ==
    IF p = << >> THEN s = << >>
    ELSE IF Head(p) = "%"
    THEN Like(s, Tail(p)) \/ (s # << >> /\ Like(Tail(s), p))
    ELSE IF Head(p) = "_"
    THEN s # << >> /\ Like(Tail(s), Tail(p))
    ELSE IF Head(p) = "\\" /\ Len(p) >= 2
    THEN s # << >> /\ Head(s) = p[2] /\ Like(Tail(s), Tail(Tail(p)))
    ELSE s # << >> /\ Head(s) = Head(p) /\ Like(Tail(s), Tail(p))

\* Line 89: AtletaModel.nome.ilike(f"%{nome}%"), LIKE without regard to case.
\* The parameter goes into the pattern as it came.
NomeILike(nome, filter) == Like(Lower(nome), Lower(<<"%">> \o filter \o <<"%">>))

\* Lines 86-94: the primary keys of the rows the query selects.
Selected(table, nome, cpf) ==
    {i \in DOMAIN table :
        /\ Truthy(nome, << >>) => NomeILike(table[i].nome, nome.value)
        /\ Truthy(cpf, "") => table[i].cpf = cpf.value}

\* Lines 81-96.  The response keeps the parameters beside the items.
QueryAllAtletas(nome, cpf) ==
    /\ resp' = Response("list", HTTP_200_OK, 0, "",
                        [nome |-> nome, cpf |-> cpf,
                         items |-> {AtletaOut(i, db[i]) : i \in Selected(db, nome, cpf)}])
    /\ UNCHANGED <<db, uuids, clock, tasks>>

\* Tables and parameters the listing is run on.
Anabela == <<"a", "n", "a", "b", "e", "l", "a">>
ListNomes == {Ana, Diana, Anabela, Bob}
ListCpfs == {"111", "222"}
ListRows ==
    [creat_at : {1, 2}, nome : ListNomes, cpf : ListCpfs, peso : {70},
     altura : {170}, sexo : {"F"}, categoria_id : {1}, centro_treinamento_id : {1}]
ListTables ==
    {table \in UNION {[ids -> ListRows] : ids \in SUBSET {1, 2}} :
        /\ \A i \in DOMAIN table : table[i].creat_at = i
        /\ \A i, j \in DOMAIN table : i # j => table[i].cpf # table[j].cpf}
NomeParams ==
    {None(<< >>), Some(<< >>), Some(<<"a", "n", "a">>), Some(<<"A", "N">>),
     Some(<<"b">>), Some(<<"a", "_", "a">>), Some(<<"%">>)}
CpfParams == {None(""), Some(""), Some("111"), Some("11")}

InitList ==
    /\ db \in ListTables
    /\ uuids = 2
    /\ clock = 2
    /\ tasks = EmptyBag
    /\ resp = NoResp
    /\ log = << >>

NextList ==
    \E nome \in NomeParams, cpf \in CpfParams :
        QueryAllAtletas(nome, cpf) /\ UNCHANGED log

SpecList == InitList /\ [][NextList]_vars

----------------------------------------------------------------------------
\* Properties.

Known(in) ==
    /\ in.categoria \in DOMAIN CategoriaTable
    /\ in.centro_treinamento \in DOMAIN CentroTreinamentoTable

\* The rows that hold a cpf.
WithCpf(table, cpf) == {i \in DOMAIN table : table[i].cpf = cpf}

\* C1: a post() whose categoria or centro de treinamento is not in the
\* reference tables answers 400, naming the categoria when that is missing
\* (it is looked up first) and the centro de treinamento otherwise; the step
\* leaves table atletas as it was and the handler ends there, so no handler
\* with an unknown reference ever stands before the insert.
C1_UnknownReferenceRejected ==
    [][/\ \A in \in AtletaInSamples :
            (PostSelectCategoria(in) /\ in.categoria \notin DOMAIN CategoriaTable)
            => /\ resp'.status = HTTP_400_BAD_REQUEST
               /\ resp'.detail = "categoria"
               /\ db' = db
               /\ tasks' = tasks
       /\ \A t \in BagToSet(tasks) :
            (/\ PostSelectCentroTreinamento(t)
             /\ t.in.centro_treinamento \notin DOMAIN CentroTreinamentoTable)
            => /\ resp'.status = HTTP_400_BAD_REQUEST
               /\ resp'.detail = "centro_treinamento"
               /\ db' = db
               /\ tasks' = tasks (-) SetToBag({t})
       /\ \A t \in BagToSet(tasks') :
            (t.op = "post" /\ t.pc = "commit") => Known(t.in)
      ]_vars

C1_Witness ==
    /\ resp.op = "post"
    /\ resp.status = HTTP_400_BAD_REQUEST
    /\ resp.detail = "centro_treinamento"
    /\ DOMAIN db # {}

\* C2: under SpecCreate (post() handlers only, interleaved at every await,
\* from an empty table), of the commits made for one cpf the first answers
\* 201 and every other one 303 naming the cpf, and exactly one row holds the
\* cpf.
CommitsFor(cpf) == SelectSeq(log, LAMBDA e : e.cpf = cpf)

C2_OneCreatePerCpf ==
    \A cpf \in {in.cpf : in \in AtletaInSamples} :
        LET done == CommitsFor(cpf) IN
        Len(done) >= 1 =>
            /\ done[1].status = HTTP_201_CREATED
            /\ \A k \in 2..Len(done) : done[k].status = HTTP_303_SEE_OTHER
            /\ Cardinality(WithCpf(db, cpf)) = 1

C2_Witness ==
    /\ Len(CommitsFor("111")) >= 2
    /\ resp.status = HTTP_303_SEE_OTHER
    /\ resp.detail = "111"

\* C3: a GET /{id} answered right after the post() that created the id
\* answers 200 with the id, creat_at, nome, cpf, peso, altura and sexo that
\* post() returned.
C3_GetAfterCreate ==
    (resp.op = "get" /\ resp.follows # NoBody) =>
        /\ resp.status = HTTP_200_OK
        /\ \A f \in {"id", "creat_at", "nome", "cpf", "peso", "altura", "sexo"} :
            resp.body[f] = resp.follows[f]

C3_Witness ==
    /\ resp.op = "get"
    /\ resp.follows # NoBody
    /\ resp.status = HTTP_200_OK
    /\ resp.body.id = resp.follows.id

\* C4: GET / answers 200 with exactly the rows that pass every parameter
\* that is present (nome: the row's nome contains the text, whatever the
\* case; cpf: the row's cpf is the text), and leaves the table as it was.
Contains(s, part) ==
    \E k \in 0..Len(s) :
        k + Len(part) <= Len(s) /\ SubSeq(s, k + 1, k + Len(part)) = part

C4_ListFilters ==
    [][\A nome \in NomeParams, cpf \in CpfParams :
        QueryAllAtletas(nome, cpf) =>
            /\ db' = db
            /\ resp'.status = HTTP_200_OK
            /\ resp'.body.items =
                {AtletaOut(i, db[i]) : i \in
                    {j \in DOMAIN db :
                        /\ nome.present =>
                            Contains(Lower(db[j].nome), Lower(nome.value))
                        /\ cpf.present => db[j].cpf = cpf.value}}
      ]_vars

\* C5: the commit of a PATCH changes, on the row of its id, no column that
\* the request did not set, never creat_at nor the primary key, and no other
\* row.
C5_UpdateFrame ==
    [][\A t \in BagToSet(tasks) :
        UpdateAtletaCommit(t) =>
            /\ DOMAIN db' = DOMAIN db
            /\ \A j \in DOMAIN db : j # t.id => db'[j] = db[j]
            /\ t.id \in DOMAIN db =>
                \A c \in DOMAIN db[t.id] :
                    (c \notin DOMAIN t.up \/ c = "creat_at")
                    => db'[t.id][c] = db[t.id][c]
      ]_vars

C5_Witness ==
    /\ resp.op = "patch"
    /\ resp.status = HTTP_200_OK
    /\ resp.body.peso = UpPeso.peso
    /\ Cardinality(DOMAIN db) = 2

\* C6: the commit of a DELETE answers 204 and takes exactly the row of its
\* id out of the table; an id that was drawn and is not in the table never
\* comes back; and a GET of an id that is not in the table answers 404.
C6_DeleteThenNotFound ==
    [][/\ \A t \in BagToSet(tasks) :
            DeleteAtletaCommit(t) =>
                /\ resp'.status = HTTP_204_NO_CONTENT
                /\ DOMAIN db' = DOMAIN db \ {t.id}
                /\ \A j \in DOMAIN db' : db'[j] = db[j]
       /\ \A i \in 1..uuids : i \notin DOMAIN db => i \notin DOMAIN db'
       /\ \A i \in RequestIds :
            (QueryAtletaById(i) /\ i \notin DOMAIN db)
            => resp'.status = HTTP_404_NOT_FOUND
      ]_vars

\* The first id drawn is inserted into an empty table, so once it is out of
\* the table it was deleted.
C6_Witness ==
    /\ uuids >= 1
    /\ 1 \notin DOMAIN db
    /\ resp.op = "get"
    /\ resp.id = 1
    /\ resp.status = HTTP_404_NOT_FOUND

\* C7: GET, PATCH and DELETE of an id that is not in the table answer 404 at
\* once, and the table is as it was.
C7_NotFound ==
    [][\A i \in RequestIds \ DOMAIN db :
        /\ QueryAtletaById(i) =>
            resp'.status = HTTP_404_NOT_FOUND /\ db' = db
        /\ \A up \in AtletaUpdateSamples : UpdateAtletaSelect(i, up) =>
            resp'.status = HTTP_404_NOT_FOUND /\ db' = db /\ tasks' = tasks
        /\ DeleteAtletaSelect(i) =>
            resp'.status = HTTP_404_NOT_FOUND /\ db' = db /\ tasks' = tasks
      ]_vars

C7_Witness ==
    /\ resp.op = "delete"
    /\ resp.status = HTTP_404_NOT_FOUND
    /\ resp.id \notin DOMAIN db
    /\ DOMAIN db # {}

\* C8: a PATCH that sets categoria or centro_treinamento resolves the nome as
\* post() does: an unknown nome answers 400 and changes nothing, and a known
\* nome ends with its pk_id in the row's foreign key.
SetsUnknownReference(up) ==
    \/ "categoria" \in DOMAIN up /\ up.categoria \notin DOMAIN CategoriaTable
    \/ /\ "centro_treinamento" \in DOMAIN up
       /\ up.centro_treinamento \notin DOMAIN CentroTreinamentoTable

C8_UpdateResolvesReferences ==
    [][/\ \A i \in DOMAIN db, up \in AtletaUpdateSamples :
            (UpdateAtletaSelect(i, up) /\ SetsUnknownReference(up))
            => resp'.status = HTTP_400_BAD_REQUEST /\ db' = db
       /\ \A i \in DOMAIN db, up \in AtletaUpdateSamples :
            (/\ UpdateAtletaSelect(i, up)
             /\ DOMAIN up \cap Relationships # {}
             /\ ~SetsUnknownReference(up))
            => resp'.status # HTTP_500_INTERNAL_SERVER_ERROR
       /\ \A t \in BagToSet(tasks) :
            (/\ UpdateAtletaCommit(t)
             /\ t.id \in DOMAIN db
             /\ "categoria" \in DOMAIN t.up
             /\ ~SetsUnknownReference(t.up))
            => db'[t.id].categoria_id = CategoriaTable[t.up.categoria]
      ]_vars

\* C9: no two rows of table atletas hold the same cpf.
C9_UniqueCpf ==
    \A i, j \in DOMAIN db : i # j => db[i].cpf # db[j].cpf

C9_Witness ==
    /\ Cardinality(DOMAIN db) = 2
    /\ resp.op = "patch"
    /\ resp.detail = "IntegrityError"

\* C10: the commit of a PATCH that gives the row a cpf another row holds
\* answers as post() does for a duplicate, 303 naming the cpf, and leaves
\* the table as it was.
C10_UpdateDuplicateCpfClassified ==
    [][\A t \in BagToSet(tasks) :
        (/\ UpdateAtletaCommit(t)
         /\ "cpf" \in t.dirty
         /\ UniqueViolation(db, t.id, t.up.cpf))
        => /\ resp'.status = HTTP_303_SEE_OTHER
           /\ resp'.detail = t.up.cpf
           /\ db' = db
      ]_vars

====
